---- MODULE Spec2Model ----
(***************************************************************************)
(* Model of panoptes.utils.indi.server.PanIndiServer (the INDI server      *)
(* manager: one external process and one named pipe) and of                *)
(* panoptes.observatory.Observatory (the composition root).                *)
(*                                                                         *)
(* Exceptions are values: "none" is a normal return, any other string is   *)
(* the class of the exception that leaves the call.                        *)
(***************************************************************************)
EXTENDS Integers, Sequences, FiniteSets, TLC

VARIABLES
    inst,        \* the PanIndiServer object: "none", "partial" (__init__ raised), "ready", "deleted"
    _proc,       \* self._proc: 0 while the attribute is not set, else the index in procs of the Popen handle
    _connected,  \* self._connected: "unset" until line 33 assigns it, then "True" or "False"
    procs,       \* every process this instance spawned: sequence of [st, attached]
    fifoFile,    \* what is at the path self._fifo: "absent", "fifo" or "file" (a regular file)
    lineLog,     \* the lines written at the pipe path, oldest first
    call,        \* the last call on the instance that finished (or hangs): [op, outcome, exc, ret, ...]
    loop,        \* load_drivers in progress: [active, devices, attempted]
    pipeMade,    \* history: the FIFO now at the path was made by this instance's start()
    termSent,    \* history: stop() sent SIGTERM to the process of self._proc while it was running
    threads,     \* the callers of the two-thread specification, see NoThread
    obs,         \* the Observatory object
    obsCall      \* the last call on the Observatory that finished

serverVars == <<inst, _proc, _connected, procs, fifoFile, lineLog, call, loop, pipeMade, termSent>>
obsVars == <<obs, obsCall>>
vars == <<inst, _proc, _connected, procs, fifoFile, lineLog, call, loop, pipeMade, termSent, threads,
          obs, obsCall>>

-----------------------------------------------------------------------------
(* Bounds *)

MaxProcs == 2       \* processes one instance may spawn (construction + start() calls)
MaxWrites == 2      \* lines written at the pipe path
MaxDevices == 2     \* entries of the mapping given to load_drivers
MaxCameras == 2     \* entries of config['cameras']

(* Inputs *)

DeviceNames == {"", "cam0"}            \* "" stands for an absent or empty (falsy) name
DriverNames == {"indi_simulator_ccd"}

RECURSIVE SeqsUpTo(_, _)
SeqsUpTo(S, n) ==
    IF n = 0 THEN {<<>>}
    ELSE SeqsUpTo(S, n - 1) \cup
         {Append(s, x) : s \in {t \in SeqsUpTo(S, n - 1) : Len(t) = n - 1}, x \in S}

\* a dict keeps insertion order and has unique keys
DeviceMaps ==
    {s \in SeqsUpTo(DeviceNames \X DriverNames, MaxDevices) :
        \A i, j \in 1..Len(s) : i # j => s[i][1] # s[j][1]}

-----------------------------------------------------------------------------
(* The operating system's view of a spawned process.                       *)
(*   running   : alive                                                     *)
(*   signalled : alive, SIGTERM sent and not yet acted upon                *)
(*   zombie    : exited, not waited for: the PID and /proc/<pid> exist     *)
(*   reaped    : waited for: the PID no longer exists                      *)

Alive(p) == p.st \in {"running", "signalled"}
PidExists(p) == p.st # "reaped"

\* a process reads the pipe when it is alive and was spawned on the file now at the path
HasReader == \E i \in 1..Len(procs) : Alive(procs[i]) /\ procs[i].attached

\* the processes spawned by the instance that run and were not sent SIGTERM
Running == {i \in 1..Len(procs) : procs[i].st = "running"}

\* how a call ended: outcome is "returned", "raised", "ignored" (an exception the
\* interpreter drops, in __del__) or "blocked" (the call never comes back)
Ended(op, exc, ret) ==
    [op |-> op, outcome |-> IF exc = "none" THEN "returned" ELSE "raised", exc |-> exc, ret |-> ret]

NoCall == Ended("none", "none", "None")
NoLoop == [active |-> FALSE, devices |-> <<>>, attempted |-> <<>>]

\* the callers that share one instance in the two-thread specification
Threads == {1, 2}
\* pc: "idle", "called" (command built, line 146), "open" (line 150), "written"
\* (line 152), "done"; str_cmd: the line to send; opens: open() calls of this
\* call; holds: the file object is open; wrote: the lines this call wrote
NoThread == [pc |-> "idle", op |-> "none", name |-> "", driver |-> "", str_cmd |-> "", opens |-> 0,
             holds |-> FALSE, wrote |-> <<>>, exc |-> "none"]

Blocked == call.outcome = "blocked"
\* the caller is single-threaded: a new call starts when the previous one is over
Idle == ~Blocked /\ ~loop.active

-----------------------------------------------------------------------------
(* PanIndiServer.start: lines 58-88.  Returns what the call does to the    *)
(* file system and process table and how it ends.                          *)

\* start() with the failure of os.mkfifo swallowed: the spawn goes on without a pipe
start_ignoring_mkfifo(file, mkfifoOk, spawnOk) ==
    LET file2 == IF file = "absent" /\ mkfifoOk THEN "fifo" ELSE file
    IN  IF spawnOk
        THEN [exc |-> "none", file |-> file2, spawned |-> TRUE]
        ELSE [exc |-> "AttributeError", file |-> file2, spawned |-> FALSE]

\* start() without the os.path.exists test: os.mkfifo on an existing path fails
start_always_mkfifo(file, mkfifoOk, spawnOk) ==
    IF file # "absent" \/ ~mkfifoOk
    THEN [exc |-> "InvalidCommand", file |-> file, spawned |-> FALSE]
    ELSE IF spawnOk
         THEN [exc |-> "none", file |-> "fifo", spawned |-> TRUE]
         ELSE [exc |-> "AttributeError", file |-> "fifo", spawned |-> FALSE]

start(file, mkfifoOk, spawnOk) ==
    LET pipeExc == IF file = "absent" /\ ~mkfifoOk THEN "InvalidCommand" ELSE "none"
        file2 == IF file = "absent" /\ mkfifoOk THEN "fifo" ELSE file
    IN  IF pipeExc # "none"
        THEN [exc |-> pipeExc, file |-> file, spawned |-> FALSE]
        ELSE IF spawnOk
             THEN [exc |-> "none", file |-> file2, spawned |-> TRUE]
             \* line 86: the handler formats self.host, which no line sets
             ELSE [exc |-> "AttributeError", file |-> file2, spawned |-> FALSE]

NewProc(file) == [st |-> "running", attached |-> (file = "fifo")]

\* __init__: lines 20-34.  found: shutil.which finds the executable.
__init__(found, mkfifoOk, spawnOk) ==
    /\ inst = "none"
    /\ IF ~found
       THEN \* line 23: assert fails before any attribute is set
            /\ inst' = "partial"
            /\ call' = Ended("__init__", "AssertionError", "None")
            /\ UNCHANGED <<_proc, _connected, procs, fifoFile, pipeMade>>
       ELSE LET r == start(fifoFile, mkfifoOk, spawnOk) IN
            /\ fifoFile' = r.file
            /\ pipeMade' = (r.file # fifoFile)
            /\ _connected' = "False"
            /\ IF r.exc = "none"
               THEN /\ procs' = Append(procs, NewProc(r.file))
                    /\ _proc' = Len(procs) + 1
                    /\ inst' = "ready"
                    /\ call' = Ended("__init__", "none", "None")
               ELSE \* lines 30-31 swallow the exception, line 34 then reads self._proc
                    /\ UNCHANGED <<procs, _proc>>
                    /\ inst' = "partial"
                    /\ call' = Ended("__init__", "AttributeError", "None")
    /\ UNCHANGED <<lineLog, loop, termSent, obsVars, threads>>

Construct == \E found, mkfifoOk, spawnOk \in BOOLEAN : __init__(found, mkfifoOk, spawnOk)

\* start() called on a constructed instance: lines 58-88.  The handle is
\* returned to the caller; self._proc is assigned by __init__ only.
start_call(mkfifoOk, spawnOk) ==
    /\ inst = "ready" /\ Idle
    /\ Len(procs) < MaxProcs
    /\ LET r == start(fifoFile, mkfifoOk, spawnOk) IN
        /\ fifoFile' = r.file
        /\ pipeMade' = (pipeMade \/ r.file # fifoFile)
        /\ procs' = IF r.spawned THEN Append(procs, NewProc(r.file)) ELSE procs
        /\ call' = Ended("start", r.exc, IF r.spawned THEN "Popen" ELSE "None")
    /\ UNCHANGED <<inst, _proc, _connected, lineLog, loop, termSent, obsVars, threads>>

Start == \E mkfifoOk, spawnOk \in BOOLEAN : start_call(mkfifoOk, spawnOk)

-----------------------------------------------------------------------------
(* Popen.terminate (line 94).  The library polls the child before it       *)
(* signals in some versions (a child that has exited is then waited for    *)
(* and not signalled) and signals without polling in others: polls says    *)
(* which.                                                                  *)

terminate(p, polls) ==
    CASE p.st = "running"   -> [p EXCEPT !.st = "signalled"]
      [] p.st = "signalled" -> p
      [] p.st = "zombie"    -> IF polls THEN [p EXCEPT !.st = "reaped"] ELSE p
      [] OTHER              -> p

Detach(ps) == [i \in 1..Len(ps) |-> [ps[i] EXCEPT !.attached = FALSE]]

\* stop: lines 90-97
stop(polls) ==
    IF _proc = 0
    THEN [exc |-> "AttributeError", procs |-> procs, file |-> fifoFile]
    ELSE IF ~PidExists(procs[_proc])
    THEN \* os.getpgid of a PID that no longer exists
         [exc |-> "ProcessLookupError", procs |-> procs, file |-> fifoFile]
    ELSE LET ps == [procs EXCEPT ![_proc] = terminate(procs[_proc], polls)]
         IN  [exc |-> "none",
              procs |-> IF fifoFile # "absent" THEN Detach(ps) ELSE ps,
              file |-> "absent"]

Stop ==
    /\ inst = "ready" /\ Idle
    /\ \E polls \in BOOLEAN :
        LET r == stop(polls) IN
        /\ procs' = r.procs
        /\ fifoFile' = r.file
        /\ pipeMade' = (pipeMade /\ r.file # "absent")
        /\ termSent' = (termSent \/ (r.exc = "none" /\ procs[_proc].st = "running"))
        /\ call' = Ended("stop", r.exc, "None")
    /\ UNCHANGED <<inst, _proc, _connected, lineLog, loop, obsVars, threads>>

\* __del__: lines 157-158.  The interpreter finalises the object also when
\* __init__ raised, and drops an exception that leaves __del__.
Del ==
    /\ inst \in {"partial", "ready"} /\ Idle
    /\ \E polls \in BOOLEAN :
        LET r == stop(polls) IN
        /\ procs' = r.procs
        /\ fifoFile' = r.file
        /\ pipeMade' = (pipeMade /\ r.file # "absent")
        /\ call' = [op |-> "__del__", outcome |-> IF r.exc = "none" THEN "returned" ELSE "ignored",
                    exc |-> r.exc, ret |-> "None"]
        /\ termSent' = (termSent \/ (r.exc = "none" /\ procs[_proc].st = "running"))
    /\ inst' = "deleted"
    /\ UNCHANGED <<_proc, _connected, lineLog, loop, obsVars, threads>>

\* is_connected: lines 41-52, for self._proc = handle and the process table ps.
\* With self._proc unset the try block raises AttributeError and the handler
\* formats self._proc.pid again.
is_connected(handle, ps) ==
    IF handle = 0 THEN [exc |-> "AttributeError", ret |-> "None"]
    ELSE [exc |-> "none", ret |-> IF PidExists(ps[handle]) THEN "True" ELSE "False"]

\* A partially initialised instance can be read by whoever holds the reference.
IsConnected ==
    /\ inst \in {"partial", "ready"} /\ Idle
    /\ LET r == is_connected(_proc, procs) IN
        /\ _connected' = IF r.exc = "none" THEN r.ret ELSE _connected
        /\ call' = Ended("is_connected", r.exc, r.ret)
    /\ UNCHANGED <<inst, _proc, procs, fifoFile, lineLog, loop, pipeMade, termSent, obsVars, threads>>

\* the server process exits, on its own or after SIGTERM
ProcExits ==
    /\ \E i \in 1..Len(procs) :
        /\ Alive(procs[i])
        /\ procs' = [procs EXCEPT ![i].st = "zombie"]
    /\ UNCHANGED <<inst, _proc, _connected, fifoFile, lineLog, call, loop, pipeMade, termSent, obsVars, threads>>

-----------------------------------------------------------------------------
(* Commands.  A command is a list of tokens; the line sent is ' '.join.    *)

RECURSIVE join(_)
join(cmd) ==
    IF Len(cmd) = 0 THEN ""
    ELSE IF Len(cmd) = 1 THEN cmd[1]
    ELSE cmd[1] \o " " \o join(Tail(cmd))

\* '\"{}\"'.format(name)
quoted(name) == "\"" \o name \o "\""

\* load_driver, lines 121-124: an empty (falsy) name adds no token at all
load_cmd(name, driver) ==
    IF name # ""
    THEN <<"start", driver, "-n", quoted(name), "\n">>
    ELSE <<"start", driver>>

\* unload_driver without the explicit quotes around the name
unload_cmd_unquoted(name, driver) == <<"stop", driver, name, "\n">>

\* unload_driver, line 133
unload_cmd(name, driver) == <<"stop", driver, quoted(name), "\n">>

(* _write_to_server: lines 141-155.  open(path, 'w') creates a regular     *)
(* file when nothing is at the path, truncates a regular file, and on a    *)
(* FIFO waits for a reader.  ioOk = FALSE is any OSError from open, write  *)
(* or flush.                                                               *)
_write_to_server(cmd, ioOk) ==
    IF _proc = 0
    THEN [outcome |-> "raised", exc |-> "AttributeError", file |-> fifoFile, log |-> lineLog]
    ELSE IF ~ioOk
    THEN [outcome |-> "raised", exc |-> "PanError", file |-> fifoFile, log |-> lineLog]
    ELSE IF fifoFile = "fifo" /\ ~HasReader
    THEN [outcome |-> "blocked", exc |-> "none", file |-> fifoFile, log |-> lineLog]
    ELSE [outcome |-> "returned", exc |-> "none",
          file |-> IF fifoFile = "absent" THEN "file" ELSE fifoFile,
          log |-> Append(lineLog, join(cmd))]

\* load_driver: lines 117-126
load_driver(name, driver, ioOk) ==
    /\ inst = "ready" /\ Idle
    /\ Len(lineLog) < MaxWrites
    /\ LET r == _write_to_server(load_cmd(name, driver), ioOk) IN
        /\ fifoFile' = r.file
        /\ lineLog' = r.log
        /\ call' = [op |-> "load_driver", outcome |-> r.outcome, exc |-> r.exc, ret |-> "None"]
    /\ UNCHANGED <<inst, _proc, _connected, procs, loop, pipeMade, termSent, obsVars, threads>>

LoadDriver ==
    \E name \in DeviceNames, driver \in DriverNames, ioOk \in BOOLEAN : load_driver(name, driver, ioOk)

\* unload_driver: lines 128-135
unload_driver(name, driver, ioOk) ==
    /\ inst = "ready" /\ Idle
    /\ Len(lineLog) < MaxWrites
    /\ LET r == _write_to_server(unload_cmd(name, driver), ioOk) IN
        /\ fifoFile' = r.file
        /\ lineLog' = r.log
        /\ call' = [op |-> "unload_driver", outcome |-> r.outcome, exc |-> r.exc, ret |-> "None"]
    /\ UNCHANGED <<inst, _proc, _connected, procs, loop, pipeMade, termSent, obsVars, threads>>

UnloadDriver ==
    \E name \in DeviceNames, driver \in DriverNames, ioOk \in BOOLEAN : unload_driver(name, driver, ioOk)

(* load_drivers: lines 99-111, one step per iteration of the for loop.     *)
(* Only error.InvalidCommand is caught (line 109); load_driver raises      *)
(* error.PanError, the package's base error, or AttributeError.            *)

LoadDriversBegin ==
    /\ inst = "ready" /\ Idle
    /\ \E devices \in DeviceMaps :
        /\ Len(lineLog) + Len(devices) <= MaxWrites
        /\ IF devices = <<>>
           THEN /\ loop' = [active |-> FALSE, devices |-> devices, attempted |-> <<>>]
                /\ call' = Ended("load_drivers", "none", "None")
           ELSE /\ loop' = [active |-> TRUE, devices |-> devices, attempted |-> <<>>]
                /\ UNCHANGED call
    /\ UNCHANGED <<inst, _proc, _connected, procs, fifoFile, lineLog, pipeMade, termSent, obsVars, threads>>

LoadDriversStep ==
    /\ loop.active /\ ~Blocked
    /\ \E ioOk \in BOOLEAN :
        LET dev == loop.devices[Len(loop.attempted) + 1]
            r == _write_to_server(load_cmd(dev[1], dev[2]), ioOk)
            att == Append(loop.attempted, dev)
            caught == r.outcome = "raised" /\ r.exc = "InvalidCommand"
            over == r.outcome = "returned" \/ caught
        IN
        /\ fifoFile' = r.file
        /\ lineLog' = r.log
        /\ IF over /\ Len(att) < Len(loop.devices)
           THEN /\ loop' = [loop EXCEPT !.attempted = att]
                /\ UNCHANGED call
           ELSE /\ loop' = [loop EXCEPT !.attempted = att, !.active = FALSE]
                /\ call' = [op |-> "load_drivers",
                            outcome |-> IF over THEN "returned" ELSE r.outcome,
                            exc |-> IF over THEN "none" ELSE r.exc, ret |-> "None"]
    /\ UNCHANGED <<inst, _proc, _connected, procs, pipeMade, termSent, obsVars, threads>>

-----------------------------------------------------------------------------
(* Two threads that call load_driver / unload_driver on one instance.      *)
(* The code takes no lock, so the steps of _write_to_server (build the     *)
(* line, open, write and flush, close) of the two calls interleave freely. *)

InFlight == Cardinality({t \in Threads : threads[t].pc \in {"called", "open"}})

\* lines 117-126 / 128-135 and 143-147: the command is built, the asserts pass
thr_call(t, op, name, driver) ==
    /\ inst = "ready"
    /\ threads[t].pc \in {"idle", "done"}
    /\ Len(lineLog) + InFlight < MaxWrites
    /\ threads' = [threads EXCEPT ![t] =
            [pc |-> "called", op |-> op, name |-> name, driver |-> driver,
             str_cmd |-> join(IF op = "load_driver" THEN load_cmd(name, driver)
                                                   ELSE unload_cmd(name, driver)),
             opens |-> 0, holds |-> FALSE, wrote |-> <<>>, exc |-> "none"]]
    /\ UNCHANGED <<serverVars, obsVars>>

ThrCall ==
    \E t \in Threads, op \in {"load_driver", "unload_driver"}, name \in DeviceNames,
       driver \in DriverNames : thr_call(t, op, name, driver)

\* line 150: open(self._fifo, 'w'); on a FIFO without a reader the thread waits
ThrOpen ==
    /\ \E t \in Threads, ioOk \in BOOLEAN :
        /\ threads[t].pc = "called"
        /\ IF ~ioOk
           THEN /\ threads' = [threads EXCEPT ![t].pc = "done", ![t].opens = @ + 1,
                                              ![t].exc = "PanError"]
                /\ UNCHANGED fifoFile
           ELSE /\ ~(fifoFile = "fifo" /\ ~HasReader)
                /\ threads' = [threads EXCEPT ![t].pc = "open", ![t].opens = @ + 1,
                                              ![t].holds = TRUE]
                /\ fifoFile' = IF fifoFile = "absent" THEN "file" ELSE fifoFile
    /\ UNCHANGED <<inst, _proc, _connected, procs, lineLog, call, loop, pipeMade, termSent, obsVars>>

\* lines 151-152: write and flush; on an OSError the with block closes the file
\* and line 155 raises PanError
ThrWrite ==
    /\ \E t \in Threads, ioOk \in BOOLEAN :
        /\ threads[t].pc = "open"
        /\ IF ioOk
           THEN /\ lineLog' = Append(lineLog, threads[t].str_cmd)
                /\ threads' = [threads EXCEPT ![t].pc = "written",
                                              ![t].wrote = Append(@, threads[t].str_cmd)]
           ELSE /\ threads' = [threads EXCEPT ![t].pc = "done", ![t].holds = FALSE,
                                              ![t].exc = "PanError"]
                /\ UNCHANGED lineLog
    /\ UNCHANGED <<inst, _proc, _connected, procs, fifoFile, call, loop, pipeMade, termSent, obsVars>>

\* line 153 and the end of the with block: the file is closed, the call returns
ThrClose ==
    /\ \E t \in Threads :
        /\ threads[t].pc = "written"
        /\ threads' = [threads EXCEPT ![t].pc = "done", ![t].holds = FALSE]
    /\ UNCHANGED <<serverVars, obsVars>>

-----------------------------------------------------------------------------
(* Observatory.  A configuration is abstracted to what __init__ looks at:  *)
(*   given        : config is not None                                     *)
(*   location     : "absent" (no 'location' key), "ok", or "no_latitude"   *)
(*   mount        : the mount's model name                                 *)
(*   hasCameras   : config has a 'cameras' entry; cameras: its model names *)
(*   targetsExist : the targets file is on disk                            *)

KnownModels == {"simulator"}
Models == {"simulator", "bogus"}

Configs ==
    [given : {TRUE}, location : {"absent", "ok", "no_latitude"}, mount : Models,
     hasCameras : {TRUE}, cameras : SeqsUpTo(Models, MaxCameras), targetsExist : BOOLEAN]
    \cup
    [given : {TRUE}, location : {"absent", "ok", "no_latitude"}, mount : Models,
     hasCameras : {FALSE}, cameras : {<<>>}, targetsExist : BOOLEAN]
    \cup
    [given : {FALSE}, location : {"absent"}, mount : {"simulator"},
     hasCameras : {FALSE}, cameras : {<<>>}, targetsExist : {FALSE}]

\* what a call of load_module for an unknown model can end with: the import
\* machinery's ImportError, an error of the package, or a failure on the result
ImportErrors == {"ImportError", "NotFound", "AttributeError"}

\* _setup_location: lines 62-104.  None * u.degree is a TypeError.
_setup_location(cfg) ==
    CASE cfg.location = "absent"      -> [exc |-> "Error", location |-> "empty"]
      [] cfg.location = "no_latitude" -> [exc |-> "TypeError", location |-> "empty"]
      [] OTHER                        -> [exc |-> "none", location |-> "set"]

\* _create_mount: lines 106-137.  importErr is what load_module raises for a
\* model that does not resolve.
_create_mount(cfg, importErr) ==
    IF cfg.mount \notin KnownModels THEN [exc |-> importErr, mount |-> "None"]
    ELSE [exc |-> "none", mount |-> cfg.mount]

\* the for loop of _create_cameras: lines 164-175
RECURSIVE cameras_loop(_, _, _)
cameras_loop(camera_info, cameras, importErr) ==
    IF camera_info = <<>> THEN [exc |-> "none", cameras |-> cameras]
    ELSE LET camera_model == Head(camera_info) IN
         IF camera_model \in KnownModels
         THEN cameras_loop(Tail(camera_info), Append(cameras, camera_model), importErr)
         \* lines 174-175: an ImportError is raised again as error.NotFound
         ELSE IF importErr = "ImportError" THEN [exc |-> "NotFound", cameras |-> cameras]
         ELSE [exc |-> importErr, cameras |-> cameras]

\* _create_cameras: lines 139-178.  Without a 'cameras' entry the loop runs
\* over the keys of the mount's dict, and a str has no get().
_create_cameras(cfg, importErr) ==
    IF ~cfg.hasCameras THEN [exc |-> "AttributeError", cameras |-> <<>>]
    ELSE LET r == cameras_loop(cfg.cameras, <<>>, importErr) IN
         \* line 177 is not reached when the loop raises
         IF r.exc # "none" THEN [exc |-> r.exc, cameras |-> <<>>] ELSE r

\* _create_scheduler: lines 180-195
_create_scheduler(cfg) ==
    IF cfg.targetsExist THEN "Scheduler" ELSE "None"

Obj(pc, cfg, location, mount, cameras, scheduler) ==
    [pc |-> pc, config |-> cfg, location |-> location, mount |-> mount,
     cameras |-> cameras, scheduler |-> scheduler]

\* Observatory.__init__: lines 22-43.  "unset" is an attribute no line has assigned yet.
ObsConstruct ==
    /\ obs.pc = "none"
    /\ \E cfg \in Configs, importErr \in ImportErrors :
        LET loc == _setup_location(cfg)
            mnt == _create_mount(cfg, importErr)
            cams == _create_cameras(cfg, importErr)
        IN
        IF ~cfg.given
        THEN /\ obs' = Obj("failed", cfg, "unset", "unset", <<>>, "unset")
             /\ obsCall' = Ended("__init__", "AssertionError", "None")
        ELSE IF loc.exc # "none"
        THEN /\ obs' = Obj("failed", cfg, loc.location, "unset", <<>>, "unset")
             /\ obsCall' = Ended("__init__", loc.exc, "None")
        ELSE IF mnt.exc # "none"
        THEN /\ obs' = Obj("failed", cfg, loc.location, mnt.mount, <<>>, "None")
             /\ obsCall' = Ended("__init__", mnt.exc, "None")
        ELSE IF cams.exc # "none"
        THEN /\ obs' = Obj("failed", cfg, loc.location, mnt.mount, cams.cameras, "None")
             /\ obsCall' = Ended("__init__", cams.exc, "None")
        ELSE /\ obs' = Obj("ready", cfg, loc.location, mnt.mount, cams.cameras,
                           _create_scheduler(cfg))
             /\ obsCall' = Ended("__init__", "none", "None")
    /\ UNCHANGED <<serverVars, threads>>

\* get_target: lines 49-56.  None has no get_target().
GetTarget ==
    /\ obs.pc = "ready"
    /\ obsCall' = IF obs.scheduler = "None"
                  THEN Ended("get_target", "AttributeError", "None")
                  ELSE Ended("get_target", "none", "Target")
    /\ UNCHANGED <<obs, serverVars, threads>>

Init ==
    /\ inst = "none"
    /\ _proc = 0
    /\ _connected = "unset"
    /\ procs = <<>>
    /\ fifoFile \in {"absent", "fifo", "file"}   \* a stale file may be left from an earlier run
    /\ lineLog = <<>>
    /\ call = NoCall
    /\ loop = NoLoop
    /\ pipeMade = FALSE
    /\ termSent = FALSE
    /\ threads = [t \in Threads |-> NoThread]
    /\ obs = Obj("none", CHOOSE c \in Configs : ~c.given, "unset", "unset", <<>>, "unset")
    /\ obsCall = NoCall

Next ==
    \/ Construct
    \/ Start
    \/ Stop
    \/ Del
    \/ IsConnected
    \/ ProcExits
    \/ LoadDriver
    \/ UnloadDriver
    \/ LoadDriversBegin
    \/ LoadDriversStep

Spec == Init /\ [][Next]_vars

NextObs ==
    \/ ObsConstruct
    \/ GetTarget

SpecObs == Init /\ [][NextObs]_vars

NextThreads ==
    \/ Construct
    \/ ProcExits
    \/ ThrCall
    \/ ThrOpen
    \/ ThrWrite
    \/ ThrClose

SpecThreads == Init /\ [][NextThreads]_vars
-----------------------------------------------------------------------------
(* Properties *)

\* C1: stop() is idempotent: on a constructed instance no stop() call raises,
\* and after a stop() that follows a stop() nothing is at the pipe path.
C1_StopIdempotent ==
    [][Stop => /\ call'.exc = "none"
               /\ (call.op = "stop" => fifoFile' = "absent")]_vars

\* the errors the code's own guard (line 143) has for "no running server"
NotConnectedErrors == {"InvalidCommand", "AssertionError"}

\* C2: load_driver while the server process is not alive fails with a
\* not-connected error and writes nothing at the pipe path.
C2_LoadDriverNotConnected ==
    [][(LoadDriver /\ ~Alive(procs[_proc])) =>
          /\ call'.outcome = "raised" /\ call'.exc \in NotConnectedErrors
          /\ lineLog' = lineLog /\ fifoFile' = fifoFile]_vars

\* the line of the command grammar: start <driver> [-n "<name>"] \n
LoadLine(name, driver) ==
    "start " \o driver \o (IF name # "" THEN " -n \"" \o name \o "\"" ELSE "") \o " \n"

\* C3: for every driver and every device name, the empty name included, the
\* line a load_driver call writes is 'start <driver> [-n "<name>"] \n'.
C3_LoadLineGrammar ==
    [][\A name \in DeviceNames, driver \in DriverNames :
          (load_driver(name, driver, TRUE) /\ call'.outcome = "returned") =>
              lineLog' = Append(lineLog, LoadLine(name, driver))]_vars

\* C4: at most one process the instance spawned and has not terminated is live.
C4_AtMostOneLive ==
    Cardinality(Running) <= 1

\* C5: when the executable is found and start() fails, the constructor returns
\* a manager whose is_connected is False.
C5_FailedStartNotConnected ==
    [][\A mkfifoOk, spawnOk \in BOOLEAN :
          (__init__(TRUE, mkfifoOk, spawnOk) /\ start(fifoFile, mkfifoOk, spawnOk).exc # "none") =>
              /\ call'.outcome = "returned"
              /\ is_connected(_proc', procs') = [exc |-> "none", ret |-> "False"]]_vars

\* C6: when construction or start() failed after the pipe was made, tearing
\* the instance down (stop() or __del__) leaves nothing at the pipe path and
\* no process running.
C6_NoDanglingResources ==
    [][((Stop \/ Del) /\ call.op \in {"__init__", "start"} /\ call.outcome = "raised" /\ pipeMade) =>
          /\ fifoFile' = "absent"
          /\ \A i \in 1..Len(procs') : procs'[i].st # "running"]_vars

\* C7: load_drivers always completes: it returns, and load_driver was
\* attempted for every device of the mapping.
C7_LoadDriversCompletes ==
    (call.op = "load_drivers" /\ ~loop.active) =>
        (call.outcome = "returned" /\ loop.attempted = loop.devices)

IsKnown(model) == model \in KnownModels

\* the configurations in which everything but the cameras is in order
SoundButCameras(cfg) ==
    cfg.given /\ cfg.location = "ok" /\ IsKnown(cfg.mount) /\ cfg.hasCameras

\* C8: camera creation skips the entries whose model does not resolve:
\* construction succeeds and cameras holds one camera per resolving entry.
C8_CamerasPartialFailure ==
    (obs.pc # "none" /\ SoundButCameras(obs.config)) =>
        (obs.pc = "ready" /\ obs.cameras = SelectSeq(obs.config.cameras, IsKnown))

\* the configurations whose construction succeeds but for the targets file
NoTargetsFile(cfg) ==
    /\ SoundButCameras(cfg) /\ \A i \in 1..Len(cfg.cameras) : IsKnown(cfg.cameras[i])
    /\ ~cfg.targetsExist

\* C9: without a targets file construction does not raise and leaves no
\* scheduler, and every get_target() then fails with NoSchedulerError.
C9_NoSchedulerError ==
    (obs.pc # "none" /\ NoTargetsFile(obs.config)) =>
        /\ obs.pc = "ready" /\ obs.scheduler = "None"
        /\ (obsCall.op = "get_target" =>
               obsCall.outcome = "raised" /\ obsCall.exc = "NoSchedulerError")

\* C10: reading is_connected returns a boolean and raises nothing, in every
\* state of the manager.
C10_IsConnectedNeverThrows ==
    [][IsConnected => (call'.outcome = "returned" /\ call'.ret \in {"True", "False"})]_vars

\* C12: stop() removes the pipe unconditionally: whenever a file is at the
\* pipe path, also when the process has exited and its PID is gone or no
\* process was recorded, nothing is at the path after stop(); and SIGTERM is
\* sent only to a process that is alive.
C12_StopRemovesPipe ==
    [][(Stop /\ fifoFile # "absent") =>
          /\ fifoFile' = "absent"
          /\ (termSent' /\ ~termSent => Alive(procs[_proc]))]_vars

\* C13: load_driver, unload_driver and is_connected neither create nor delete
\* a file at the pipe path: once stop() has removed it, none of them makes a
\* file reappear there.
C13_PipeOnlyBetweenStartAndStop ==
    [][(LoadDriver \/ UnloadDriver \/ LoadDriversStep \/ IsConnected) => fifoFile' = fifoFile]_vars

\* C19: once stop() has sent SIGTERM to the running server and the process
\* is dead, every read of is_connected gives False.
C19_NotConnectedAfterStop ==
    [][(IsConnected /\ termSent /\ ~Alive(procs[_proc])) => call'.ret = "False"]_vars

\* C15: creation order in start(): whenever start() spawns the process a
\* file is at the pipe path, and when the pipe cannot be made no process is
\* spawned.
C15_PipeBeforeSpawn ==
    [][\A mkfifoOk, spawnOk \in BOOLEAN :
          (__init__(TRUE, mkfifoOk, spawnOk) \/ start_call(mkfifoOk, spawnOk)) =>
              /\ (Len(procs') > Len(procs) => fifoFile' # "absent")
              /\ ((fifoFile = "absent" /\ ~mkfifoOk) => procs' = procs)]_vars

\* start() has made the pipe and then spawned the process
C15_Witness ==
    /\ call.op \in {"__init__", "start"} /\ call.outcome = "returned"
    /\ pipeMade /\ fifoFile = "fifo" /\ Len(procs) > 0

\* C16: a file already at the pipe path does not fail start(): the file is
\* left as it is, no pipe is made, no pipe error is raised, and the process
\* is spawned whenever the spawn itself succeeds.
C16_StalePipeReused ==
    [][\A mkfifoOk, spawnOk \in BOOLEAN :
          ((__init__(TRUE, mkfifoOk, spawnOk) \/ start_call(mkfifoOk, spawnOk)) /\ fifoFile # "absent") =>
              /\ fifoFile' = fifoFile
              /\ ~(pipeMade' /\ ~pipeMade)
              /\ call'.exc # "InvalidCommand"
              /\ (spawnOk => (Len(procs') = Len(procs) + 1 /\ call'.outcome = "returned"))]_vars

\* the constructor has started the server on a file left at the pipe path
C16_Witness ==
    /\ inst = "ready" /\ call.op = "__init__" /\ call.outcome = "returned"
    /\ ~pipeMade /\ fifoFile # "absent" /\ Len(procs) = 1

\* the threads inside _write_to_server, and those that have the pipe open
InWrite == {t \in Threads : threads[t].pc \in {"called", "open", "written"}}
Writers == {t \in Threads : threads[t].holds}

\* C14: the pipe is a single-writer channel: the calls of two threads are
\* serialized, never two of them have the pipe open for writing, never are
\* two of them between their check and the end of their send.
C14_SingleWriter ==
    Cardinality(Writers) <= 1 /\ Cardinality(InWrite) <= 1

\* the line of the command grammar: stop <driver> "<name>" \n
UnloadLine(name, driver) == "stop " \o driver \o " \"" \o name \o "\" \n"

\* C18: an unload_driver call that is over has opened the pipe exactly once,
\* holds no open file, and what it wrote is the one line
\* 'stop <driver> "<name>" \n' (nothing when it failed).
C18_UnloadOneWrite ==
    \A t \in Threads :
        (threads[t].op = "unload_driver" /\ threads[t].pc = "done") =>
            /\ threads[t].opens = 1
            /\ ~threads[t].holds
            /\ threads[t].wrote =
                 IF threads[t].exc = "none"
                 THEN <<UnloadLine(threads[t].name, threads[t].driver)>> ELSE <<>>

\* an unload_driver call for a named device has returned
C18_Witness ==
    \E t \in Threads :
        /\ threads[t].op = "unload_driver" /\ threads[t].pc = "done"
        /\ threads[t].exc = "none" /\ threads[t].name = "cam0"

\* the package's own error class, the one _setup_location raises by itself
ConfigurationErrors == {"Error"}

\* C17: the location is validated eagerly and fatally: without a 'location'
\* entry, or with a malformed one, construction fails with a structured
\* configuration error before any mount, camera or scheduler is created.
C17_LocationValidatedEagerly ==
    (obs.pc # "none" /\ obs.config.given /\ obs.config.location # "ok") =>
        /\ obs.pc = "failed"
        /\ obsCall.outcome = "raised" /\ obsCall.exc \in ConfigurationErrors
        /\ obs.mount = "unset" /\ obs.cameras = <<>> /\ obs.scheduler = "unset"
====
